---------------------------- MODULE Spec2Model ----------------------------
(***************************************************************************)
(* A model of SpotifyScaler's key-detection engine (analysis.py) and its   *)
(* result cache (cache_utils.py).                                          *)
(*                                                                         *)
(* Numbers.  Python floats are modelled in fixed point.  A correlation or  *)
(* a score s is the integer 1000*s resp. 10000*s, a confidence c is the    *)
(* integer ConfScale*c, and the value a float operation yields when it     *)
(* divides 0 by 0 is the distinguished value NaN, which every comparison   *)
(* answers with FALSE and every arithmetic operation propagates.           *)
(*                                                                         *)
(* Audio.  librosa is outside the repository.  A waveform is modelled by   *)
(* what the code reads of it: its length in samples, and for every run of  *)
(* samples the chroma frame the feature extractor reports there.           *)
(***************************************************************************)
EXTENDS Integers, Sequences, FiniteSets, TLC

(***************************************************************************)
(* Floats with NaN                                                         *)
(***************************************************************************)
NaN == -999999999

IsNaN(a) == a = NaN

FAdd(a, b) == IF IsNaN(a) \/ IsNaN(b) THEN NaN ELSE a + b

FSub(a, b) == IF IsNaN(a) \/ IsNaN(b) THEN NaN ELSE a - b

\* a * n / d for a float a and the decimal constant n/d
FScale(a, n, d) == IF IsNaN(a) THEN NaN ELSE (a * n) \div d

\* a * n for a float a and an exact integer factor n
FTimes(a, n) == IF IsNaN(a) THEN NaN ELSE a * n

FAbs(a) == IF IsNaN(a) THEN NaN ELSE IF a < 0 THEN -a ELSE a

FGt(a, b) == ~IsNaN(a) /\ ~IsNaN(b) /\ a > b

FGe(a, b) == ~IsNaN(a) /\ ~IsNaN(b) /\ a >= b

FLt(a, b) == ~IsNaN(a) /\ ~IsNaN(b) /\ a < b

(***************************************************************************)
(* Integer square root (floor), by bisection.                              *)
(***************************************************************************)
RECURSIVE SqrtBetween(_, _, _)
SqrtBetween(n, lo, hi) ==
    IF hi - lo <= 1 THEN lo
    ELSE LET mid == (lo + hi) \div 2
         IN  IF mid * mid <= n THEN SqrtBetween(n, mid, hi)
                               ELSE SqrtBetween(n, lo, mid)

ISqrt(n) == IF n <= 0 THEN 0 ELSE SqrtBetween(n, 0, 46341)

(***************************************************************************)
(* Pitch classes, modes and the reference templates.                       *)
(* Template values are the source's values times 100.                      *)
(***************************************************************************)
PC == 0..11

Modes == {"major", "minor"}

\* np.array: the function f as an array whose elements are computed once
Array(f) == f @@ << >>

Vec(s) == Array([i \in PC |-> s[i + 1]])

KEY_NAMES == Vec(<<"C", "C#", "D", "D#", "E", "F", "F#", "G", "G#", "A", "A#", "B">>)

KRUMHANSL_MAJOR == Vec(<<635, 223, 348, 233, 438, 409, 252, 519, 239, 366, 229, 288>>)

KRUMHANSL_MINOR == Vec(<<633, 268, 352, 538, 260, 353, 254, 475, 398, 269, 334, 317>>)

TEMPERLEY_MAJOR == Vec(<<500, 200, 350, 200, 450, 400, 200, 450, 200, 350, 150, 400>>)

TEMPERLEY_MINOR == Vec(<<500, 200, 350, 450, 200, 400, 200, 450, 350, 200, 150, 400>>)

ALBRECHT_MAJOR == Vec(<<644, 200, 348, 219, 454, 353, 239, 511, 239, 366, 229, 329>>)

ALBRECHT_MINOR == Vec(<<626, 268, 348, 583, 288, 369, 246, 512, 404, 269, 334, 324>>)

\* (major template, minor template, weight in tenths)
profiles ==
    << [major |-> KRUMHANSL_MAJOR, minor |-> KRUMHANSL_MINOR, weight |-> 3],
       [major |-> TEMPERLEY_MAJOR, minor |-> TEMPERLEY_MINOR, weight |-> 3],
       [major |-> ALBRECHT_MAJOR,  minor |-> ALBRECHT_MINOR,  weight |-> 4] >>

(***************************************************************************)
(* numpy helpers                                                           *)
(***************************************************************************)
RECURSIVE SumUpTo(_, _)
SumUpTo(f, n) == IF n < 0 THEN 0 ELSE f[n] + SumUpTo(f, n - 1)

\* np.sum of a 12-vector
Sum12(f) == SumUpTo(f, 11)

\* np.roll(v, shift): element i moves to index (i + shift) mod 12
Roll(v, shift) == Array([i \in PC |-> v[(i - shift) % 12]])

\* np.argmax: the first index holding a NaN if there is one, else the first
\* index holding the maximum
ArgMax(a) ==
    IF \E i \in PC : IsNaN(a[i])
    THEN CHOOSE i \in PC : IsNaN(a[i]) /\ \A j \in 0..(i - 1) : ~IsNaN(a[j])
    ELSE CHOOSE i \in PC : /\ \A j \in PC : a[j] <= a[i]
                           /\ \A j \in 0..(i - 1) : a[j] < a[i]

(***************************************************************************)
(* scipy.stats.pearsonr, times 1000.  With dx = 12x - sum(x) and           *)
(* dy = 12y - sum(y), r = sum(dx*dy) / sqrt(sum(dx^2) * sum(dy^2)); a      *)
(* constant input makes the denominator 0 and the result NaN.              *)
(***************************************************************************)
Centered(x) == Array([i \in PC |-> 12 * x[i] - Sum12(x)])

Dot(x, y) == Sum12(Array([i \in PC |-> x[i] * y[i]]))

\* the raw dot product in place of the correlation
RawDot(x, y) == Dot(x, y) \div 1000

PearsonR(x, y) ==
    LET dx == Centered(x)
        dy == Centered(y)
        sx == ISqrt(Dot(dx, dx))
        sy == ISqrt(Dot(dy, dy))
    IN  IF Dot(dx, dx) = 0 \/ Dot(dy, dy) = 0 THEN NaN
        ELSE ((((Dot(dx, dy) * 10) \div sx) * 100) \div sy)

correlate_with_profiles_swapped(chroma_vector, profile_major, profile_minor) ==
    [major |-> Array([shift \in PC |-> PearsonR(chroma_vector, Roll(profile_major, 0 - shift))]),
     minor |-> Array([shift \in PC |-> PearsonR(chroma_vector, Roll(profile_minor, 0 - shift))])]

correlate_with_profiles(chroma_vector, profile_major, profile_minor) ==
    [major |-> Array([shift \in PC |-> PearsonR(chroma_vector, Roll(profile_major, shift))]),
     minor |-> Array([shift \in PC |-> PearsonR(chroma_vector, Roll(profile_minor, shift))])]


(***************************************************************************)
(* The weighted score arrays over the three templates, times 10000.        *)
(***************************************************************************)
RECURSIVE AccumulateScores(_, _)
AccumulateScores(chroma_norm, n) ==
    IF n = 0 THEN [mode \in Modes |-> [shift \in PC |-> 0]]
    ELSE LET before == AccumulateScores(chroma_norm, n - 1)
             corrs == correlate_with_profiles(chroma_norm, profiles[n].major, profiles[n].minor)
         IN  [mode \in Modes |->
                 Array([shift \in PC |-> FAdd(before[mode][shift],
                                              FTimes(corrs[mode][shift], profiles[n].weight))])]

WeightedScores(chroma_norm) == Array(AccumulateScores(chroma_norm, Len(profiles)))

(***************************************************************************)
(* Confidences are floats times ConfScale.                                 *)
(***************************************************************************)
ConfScale == 100000

\* 0.05 on the score scale
NearTie == 500

\* winning / (winning + competing + 1e-8).  The 1e-8 is below the resolution
\* of the score scale, and decides the quotient only when the sum is 0.
ConfidenceOf(winning, competing) ==
    IF IsNaN(winning) \/ IsNaN(competing) THEN NaN
    ELSE LET d == winning + competing
         IN  IF d > 0 THEN (winning * ConfScale) \div d
             ELSE IF d < 0 THEN 0 - (((winning * ConfScale)) \div (0 - d))
             ELSE winning * 10000 * ConfScale

\* lines 71-93 with the near-tie penalty missing
KeyFromScores_nopenalty(scores) ==
    LET major_idx == ArgMax(scores["major"])
        minor_idx == ArgMax(scores["minor"])
        major_score == scores["major"][major_idx]
        minor_score == scores["minor"][minor_idx]
    IN  IF FGt(major_score, minor_score)
        THEN [key_idx |-> major_idx, mode |-> "major",
              confidence |-> ConfidenceOf(major_score, minor_score)]
        ELSE [key_idx |-> minor_idx, mode |-> "minor",
              confidence |-> ConfidenceOf(minor_score, major_score)]

KeyFromScores(scores) ==
    LET major_idx == ArgMax(scores["major"])
        minor_idx == ArgMax(scores["minor"])
        major_score == scores["major"][major_idx]
        minor_score == scores["minor"][minor_idx]
        near == FLt(FAbs(FSub(major_score, minor_score)), NearTie)
    IN  IF FGt(major_score, minor_score)
        THEN [key_idx |-> major_idx, mode |-> "major",
              confidence |-> IF near
                             THEN FScale(ConfidenceOf(major_score, minor_score), 8, 10)
                             ELSE ConfidenceOf(major_score, minor_score)]
        ELSE [key_idx |-> minor_idx, mode |-> "minor",
              confidence |-> IF near
                             THEN FScale(ConfidenceOf(minor_score, major_score), 8, 10)
                             ELSE ConfidenceOf(minor_score, major_score)]

(***************************************************************************)
(* Waveforms.  A waveform y is a sequence of runs [n, frame]: n samples    *)
(* over which the extractor's chroma frame is the 12-vector frame.         *)
(***************************************************************************)
sr == 22050

segment_duration == 10

RECURSIVE WLen(_)
WLen(y) == IF y = << >> THEN 0 ELSE Head(y).n + WLen(Tail(y))

Min(a, b) == IF a < b THEN a ELSE b

Max(a, b) == IF a > b THEN a ELSE b

\* y[start:end], for 0 <= start
RECURSIVE Slice(_, _, _)
Slice(y, start, end) ==
    IF y = << >> \/ end <= 0 \/ end <= start THEN << >>
    ELSE LET h == Head(y)
             lo == Min(start, h.n)
             hi == Min(end, h.n)
             rest == Slice(Tail(y), Max(start - h.n, 0), end - h.n)
         IN  IF hi > lo THEN <<[n |-> hi - lo, frame |-> h.frame]>> \o rest
                        ELSE rest

\* get_enhanced_chroma: the chroma frames of y, run by run
get_enhanced_chroma(y) == y

\* the number of samples of y whose frame has at most v in bin i
RECURSIVE CountLe(_, _, _)
CountLe(chroma, i, v) ==
    IF chroma = << >> THEN 0
    ELSE (IF Head(chroma).frame[i] <= v THEN Head(chroma).n ELSE 0)
         + CountLe(Tail(chroma), i, v)

\* the k-th smallest (from 0) value of bin i over the samples
KthSmallest(chroma, i, k) ==
    LET vals == {chroma[j].frame[i] : j \in 1..Len(chroma)}
    IN  CHOOSE v \in vals : /\ CountLe(chroma, i, v) > k
                            /\ \A u \in vals : u < v => CountLe(chroma, i, u) <= k

\* 2 * np.median(chroma, axis=1): the two middle values added
Median2(chroma) ==
    LET total == WLen(chroma)
    IN  Array([i \in PC |-> KthSmallest(chroma, i, (total - 1) \div 2)
                            + KthSmallest(chroma, i, total \div 2)])

\* chroma_median / (np.sum(chroma_median) + 1e-8), times 1000
Normalize(v) ==
    Array([i \in PC |-> IF Sum12(v) = 0 THEN 0 ELSE (v[i] * 1000) \div Sum12(v)])

ChromaNorm(y) == Normalize(Median2(get_enhanced_chroma(y)))

detect_key_enhanced(y) == KeyFromScores(WeightedScores(ChromaNorm(y)))

(***************************************************************************)
(* Segment-based voting (segment_based_detection).                         *)
(***************************************************************************)
\* line 98
NSegments(y) == Max(1, WLen(y) \div (segment_duration * sr))

\* lines 104-109: the sample ranges [start, end) of the segments i ..
\* n_segments-1 that are handed to detect_key_enhanced
RECURSIVE SegmentRanges(_, _, _)
SegmentRanges(y, i, n_segments) ==
    IF i >= n_segments THEN << >>
    ELSE LET segment_samples == segment_duration * sr
             start == i * segment_samples
             end == Min((i + 1) * segment_samples, WLen(y))
             rest == SegmentRanges(y, i + 1, n_segments)
         IN  IF end - start > sr
             THEN <<[start |-> start, end |-> end]>> \o rest
             ELSE rest

\* the (key_idx, mode, confidence) of the usable segments i .. n_segments-1
RECURSIVE SegmentVotes(_, _, _)
SegmentVotes(y, i, n_segments) ==
    IF i >= n_segments THEN << >>
    ELSE LET segment_samples == segment_duration * sr
             start == i * segment_samples
             end == Min((i + 1) * segment_samples, WLen(y))
             segment == Slice(y, start, end)
             rest == SegmentVotes(y, i + 1, n_segments)
         IN  IF WLen(segment) > sr
             THEN <<detect_key_enhanced(segment)>> \o rest
             ELSE rest

\* the float sum of the confidences of the votes whose field has the value
RECURSIVE VoteMass(_, _, _, _)
VoteMass(votes, field, value, n) ==
    IF n = 0 THEN 0
    ELSE IF votes[n][field] = value
         THEN FAdd(VoteMass(votes, field, value, n - 1), votes[n].confidence)
         ELSE VoteMass(votes, field, value, n - 1)

\* the float sum of the confidences of the first n votes
RECURSIVE SumConfidences(_, _)
SumConfidences(votes, n) ==
    IF n = 0 THEN 0 ELSE FAdd(SumConfidences(votes, n - 1), votes[n].confidence)

\* np.mean
FMean(total, count) == IF IsNaN(total) THEN NaN ELSE total \div count

\* the voting with the confidence taken from the winning tonic's tally
TallyVotes_tally_confidence(votes) ==
    LET key_weights == Array([k \in PC |->
                           VoteMass(votes, "key_idx", k, Len(votes))])
        mode_weights == [m \in Modes |->
                           VoteMass(votes, "mode", m, Len(votes))]
    IN  [key_idx |-> ArgMax(key_weights),
         mode |-> IF FGt(mode_weights["major"], mode_weights["minor"])
                  THEN "major" ELSE "minor",
         confidence |-> FMean(key_weights[ArgMax(key_weights)], Len(votes))]

\* the voting with the mode comparison the wrong way round
TallyVotes_mode_swapped(votes) ==
    LET key_weights == Array([k \in PC |->
                           VoteMass(votes, "key_idx", k, Len(votes))])
        mode_weights == [m \in Modes |->
                           VoteMass(votes, "mode", m, Len(votes))]
    IN  [key_idx |-> ArgMax(key_weights),
         mode |-> IF FGt(mode_weights["major"], mode_weights["minor"])
                  THEN "minor" ELSE "major",
         confidence |-> FMean(SumConfidences(votes, Len(votes)), Len(votes))]

TallyVotes(votes) ==
    LET key_weights == Array([k \in PC |->
                           VoteMass(votes, "key_idx", k, Len(votes))])
        mode_weights == [m \in Modes |->
                           VoteMass(votes, "mode", m, Len(votes))]
    IN  [key_idx |-> ArgMax(key_weights),
         mode |-> IF FGt(mode_weights["major"], mode_weights["minor"])
                  THEN "major" ELSE "minor",
         confidence |-> FMean(SumConfidences(votes, Len(votes)), Len(votes))]

\* the voting over whole segments only
segment_based_detection_whole_segments(y) ==
    LET segment_samples == segment_duration * sr
        n_segments == WLen(y) \div segment_samples
        votes == SegmentVotes(y, 0, n_segments)
    IN  IF votes = << >>
        THEN [key_idx |-> 0, mode |-> "major", confidence |-> 0]
        ELSE TallyVotes(votes)

segment_based_detection(y) ==
    LET segment_samples == segment_duration * sr
        n_segments == Max(1, WLen(y) \div segment_samples)
        votes == SegmentVotes(y, 0, n_segments)
    IN  IF votes = << >>
        THEN [key_idx |-> 0, mode |-> "major", confidence |-> 0]
        ELSE TallyVotes(votes)

(***************************************************************************)
(* relative_major_minor.  A string of words separated by blanks is the     *)
(* sequence of its words: f"{name} major" is <<name, "major">>.            *)
(***************************************************************************)
relative_major_minor_same_sign(key_index, mode) ==
    IF mode = "minor" THEN <<KEY_NAMES[(key_index + 3) % 12], "major">>
    ELSE IF mode = "major" THEN <<KEY_NAMES[(key_index + 3) % 12], "minor">>
    ELSE <<"Unknown">>

relative_major_minor(key_index, mode) ==
    IF mode = "minor" THEN <<KEY_NAMES[(key_index + 3) % 12], "major">>
    ELSE IF mode = "major" THEN <<KEY_NAMES[(key_index - 3) % 12], "minor">>
    ELSE <<"Unknown">>

(***************************************************************************)
(* The consensus rule of detect_key_librosa (lines 188-202).               *)
(***************************************************************************)
Adopt(e, confidence) == [key_index |-> e.key_idx, mode |-> e.mode, confidence |-> confidence]

\* the rule with the agreement test tried first
Resolve_agreement_first(e1, e2) ==
    IF e1.key_idx = e2.key_idx /\ e1.mode = e2.mode
    THEN Adopt(e1, FScale(FAdd(e1.confidence, e2.confidence), 11, 20))
    ELSE IF FGt(FTimes(e1.confidence, 10), FTimes(e2.confidence, 12))
    THEN Adopt(e1, e1.confidence)
    ELSE IF FGt(FTimes(e2.confidence, 10), FTimes(e1.confidence, 12))
    THEN Adopt(e2, e2.confidence)
    ELSE IF FGe(e1.confidence, e2.confidence)
         THEN Adopt(e1, FScale(e1.confidence, 9, 10))
         ELSE Adopt(e2, FScale(e2.confidence, 9, 10))

\* the rule with the factor 0.8 on a disagreement
Resolve_harsh_penalty(e1, e2) ==
    IF FGt(FTimes(e1.confidence, 10), FTimes(e2.confidence, 12))
    THEN Adopt(e1, e1.confidence)
    ELSE IF FGt(FTimes(e2.confidence, 10), FTimes(e1.confidence, 12))
    THEN Adopt(e2, e2.confidence)
    ELSE IF e1.key_idx = e2.key_idx /\ e1.mode = e2.mode
    THEN Adopt(e1, FScale(FAdd(e1.confidence, e2.confidence), 11, 20))
    ELSE IF FGe(e1.confidence, e2.confidence)
         THEN Adopt(e1, FScale(e1.confidence, 8, 10))
         ELSE Adopt(e2, FScale(e2.confidence, 8, 10))

\* the rule with the mode of estimate 1 kept on a disagreement
Resolve_keep_mode(e1, e2) ==
    IF FGt(FTimes(e1.confidence, 10), FTimes(e2.confidence, 12))
    THEN Adopt(e1, e1.confidence)
    ELSE IF FGt(FTimes(e2.confidence, 10), FTimes(e1.confidence, 12))
    THEN Adopt(e2, e2.confidence)
    ELSE IF e1.key_idx = e2.key_idx /\ e1.mode = e2.mode
    THEN Adopt(e1, FScale(FAdd(e1.confidence, e2.confidence), 11, 20))
    ELSE IF FGe(e1.confidence, e2.confidence)
         THEN Adopt(e1, FScale(e1.confidence, 9, 10))
         ELSE [key_index |-> e2.key_idx, mode |-> e1.mode,
               confidence |-> FScale(e2.confidence, 9, 10)]

Resolve(e1, e2) ==
    IF FGt(FTimes(e1.confidence, 10), FTimes(e2.confidence, 12))
    THEN Adopt(e1, e1.confidence)
    ELSE IF FGt(FTimes(e2.confidence, 10), FTimes(e1.confidence, 12))
    THEN Adopt(e2, e2.confidence)
    ELSE IF e1.key_idx = e2.key_idx /\ e1.mode = e2.mode
    THEN Adopt(e1, FScale(FAdd(e1.confidence, e2.confidence), 11, 20))
    ELSE IF FGe(e1.confidence, e2.confidence)
         THEN Adopt(e1, FScale(e1.confidence, 9, 10))
         ELSE Adopt(e2, FScale(e2.confidence, 9, 10))

(***************************************************************************)
(* Alternative keys (lines 204-239).                                       *)
(***************************************************************************)
\* round(n / d, 3 decimals) for n / d given in thousandths: n * 1000 / d
\* rounded to the nearest integer
RoundDiv(n, d) ==
    IF d > 0 THEN (2 * n + d) \div (2 * d)
    ELSE ((0 - 2) * n - d) \div ((0 - 2) * d)

\* f"{key_name}{'m' if mode == 'minor' else ''}", piece by piece
ScaleLabel(key_name, mode) == IF mode = "minor" THEN <<key_name, "m">> ELSE <<key_name>>

\* all_scores as built by the loop: (0, major), (0, minor), (1, major), ...
AllScores(scores) ==
    [p \in 1..24 |->
        LET i == (p - 1) \div 2
            m == IF (p - 1) % 2 = 0 THEN "major" ELSE "minor"
        IN  [key_idx |-> i, mode |-> m, score |-> scores[m][i]]]

\* list.sort(key = score, reverse = True): stable, descending.  NaN scores
\* compare as neither smaller nor greater and keep their places.
SortDescending(list) ==
    LET Before(p, q) == \/ FGt(list[p].score, list[q].score)
                        \/ (~FGt(list[q].score, list[p].score) /\ p < q)
        rank == Array([p \in 1..Len(list) |->
                    1 + Cardinality({q \in 1..Len(list) : q # p /\ Before(q, p)})])
    IN  [r \in 1..Len(list) |-> list[CHOOSE p \in 1..Len(list) : rank[p] = r]]

\* the quotient the other way round
RelativeConfidence_inverted(score_alt, main_score) ==
    IF IsNaN(score_alt) \/ IsNaN(main_score) THEN NaN
    ELSE IF score_alt = 0 THEN 0
    ELSE RoundDiv(main_score * 1000, score_alt)

\* score_alt / (main_score + 1e-8), rounded to 3 decimals, in thousandths
RelativeConfidence(score_alt, main_score) ==
    IF IsNaN(score_alt) \/ IsNaN(main_score) THEN NaN
    ELSE IF main_score = 0 THEN score_alt * 10000 * 1000
    ELSE RoundDiv(score_alt * 1000, main_score)

\* the loop of lines 224-239 without the skip of the main key
RECURSIVE TakeAlternatives_keep_main(_, _, _, _, _)
TakeAlternatives_keep_main(sorted, key_index, mode, main_score, found) ==
    IF sorted = << >> \/ found >= 3 THEN << >>
    ELSE LET h == Head(sorted)
         IN  <<[pair |-> "tuple",
                scale |-> ScaleLabel(KEY_NAMES[h.key_idx], h.mode),
                conf |-> RelativeConfidence(h.score, main_score)]>>
             \o TakeAlternatives_keep_main(Tail(sorted), key_index, mode, main_score, found + 1)

RECURSIVE TakeAlternatives(_, _, _, _, _)
TakeAlternatives(sorted, key_index, mode, main_score, found) ==
    IF sorted = << >> \/ found >= 3 THEN << >>
    ELSE LET h == Head(sorted)
         IN  IF h.key_idx = key_index /\ h.mode = mode
             THEN TakeAlternatives(Tail(sorted), key_index, mode, main_score, found)
             ELSE <<[pair |-> "tuple",
                     scale |-> ScaleLabel(KEY_NAMES[h.key_idx], h.mode),
                     conf |-> RelativeConfidence(h.score, main_score)]>>
                  \o TakeAlternatives(Tail(sorted), key_index, mode, main_score, found + 1)

AlternativeKeys(scores, key_index, mode) ==
    LET all_scores == SortDescending(AllScores(scores))
        at == CHOOSE p \in 1..24 : all_scores[p].key_idx = key_index /\ all_scores[p].mode = mode
    IN  TakeAlternatives(all_scores, key_index, mode, all_scores[at].score, 0)

(***************************************************************************)
(* Results (lines 241-284).  confidence and energy are in thousandths,     *)
(* tempo and brightness in tenths.                                         *)
(***************************************************************************)
\* 0.01, in the unit of an audio's energy (1e-4)
QuietEnergy == 100

Round3(confidence) == IF IsNaN(confidence) THEN NaN ELSE RoundDiv(confidence, ConfScale \div 1000)

Fields == {"key", "mode", "relative_scale", "confidence", "tempo", "energy",
           "brightness", "scale", "alternative_keys"}

Sentinel_without_alternatives ==
    [key |-> "Unknown", mode |-> "unknown", relative_scale |-> <<"Unknown">>,
     confidence |-> 0, tempo |-> 0, energy |-> 0, brightness |-> 0,
     scale |-> <<"Unknown">>]

Sentinel ==
    [key |-> "Unknown", mode |-> "unknown", relative_scale |-> <<"Unknown">>,
     confidence |-> 0, tempo |-> 0, energy |-> 0, brightness |-> 0,
     scale |-> <<"Unknown">>, alternative_keys |-> << >>]

\* the result dictionary with the adjustment also at energy = 0.01
BuildResults_quiet_inclusive(key_index, mode, confidence, alternative_keys, tempo, energy, cent) ==
    LET detected_key == KEY_NAMES[key_index]
        rel == relative_major_minor(key_index, mode)
        adjusted == IF energy <= QuietEnergy THEN FScale(confidence, 7, 10) ELSE confidence
    IN  [key |-> detected_key,
         mode |-> mode,
         relative_scale |-> rel,
         confidence |-> Round3(adjusted),
         tempo |-> RoundDiv(tempo, 10),
         energy |-> RoundDiv(energy, 10),
         brightness |-> RoundDiv(cent, 10),
         scale |-> ScaleLabel(detected_key, mode) \o <<"/", rel[1]>>,
         alternative_keys |-> alternative_keys]

\* lines 250-265: the quiet-signal adjustment and the result dictionary
BuildResults(key_index, mode, confidence, alternative_keys, tempo, energy, cent) ==
    LET detected_key == KEY_NAMES[key_index]
        rel == relative_major_minor(key_index, mode)
        adjusted == IF energy < QuietEnergy THEN FScale(confidence, 7, 10) ELSE confidence
    IN  [key |-> detected_key,
         mode |-> mode,
         relative_scale |-> rel,
         confidence |-> Round3(adjusted),
         tempo |-> RoundDiv(tempo, 10),
         energy |-> RoundDiv(energy, 10),
         brightness |-> RoundDiv(cent, 10),
         scale |-> ScaleLabel(detected_key, mode) \o <<"/", rel[1]>>,
         alternative_keys |-> alternative_keys]

\* the window with only the first 10 seconds skipped
Window_keep_tail(y) ==
    IF WLen(y) > 30 * sr
    THEN Slice(y, 10 * sr, Min(WLen(y), 120 * sr))
    ELSE y

\* lines 156-159: the analysed window
Window(y) ==
    IF WLen(y) > 30 * sr
    THEN Slice(y, 10 * sr, Min(WLen(y) - 10 * sr, 120 * sr))
    ELSE y

\* lines 161-239: both estimates, the consensus and the alternatives
KeyAnalysis(y) ==
    LET e1 == detect_key_enhanced(y)
        e2 == segment_based_detection(y)
        scores == WeightedScores(ChromaNorm(y))
        final == Resolve(e1, e2)
    IN  [key_index |-> final.key_index, mode |-> final.mode,
         confidence |-> final.confidence,
         alternative_keys |-> AlternativeKeys(scores, final.key_index, final.mode)]

(***************************************************************************)
(* The cache (cache_utils.py).  json.dump writes a tuple as an array and   *)
(* json.load reads an array as a list.                                     *)
(***************************************************************************)
None == "None"

JsonPairs(pairs, kind) ==
    [j \in 1..Len(pairs) |-> [pair |-> kind, scale |-> pairs[j].scale, conf |-> pairs[j].conf]]

json_dump(results) ==
    [results EXCEPT !.alternative_keys = JsonPairs(results.alternative_keys, "array")]

json_load(doc) ==
    [doc EXCEPT !.alternative_keys = JsonPairs(doc.alternative_keys, "list")]

\* An optional value is << >> (Python's None) or <<v>>.
\* load_from_cache: what the files of CACHE_DIR give for file_hash
load_from_cache(cache_dir, file_hash) ==
    IF file_hash = None THEN << >>
    ELSE IF cache_dir[file_hash] # << >> THEN <<json_load(cache_dir[file_hash][1])>>
    ELSE << >>

\* CACHE_DIR after save_to_cache(file_hash, results)
save_to_cache(cache_dir, file_hash, results) ==
    IF file_hash = None THEN cache_dir
    ELSE [cache_dir EXCEPT ![file_hash] = <<json_dump(results)>>]

(***************************************************************************)
(* The files the program is run on.  A chroma frame is a 12-vector of      *)
(* tenths; an audio's energy is in units of 1e-4, its tempo and spectral   *)
(* centroid in hundredths.  fault names the step in which a library call    *)
(* raises on this audio: load, analyze (the chroma extraction) or features.*)
(***************************************************************************)
FrameC == Vec(<<10, 0, 2, 0, 8, 1, 0, 9, 0, 2, 0, 1>>)

FrameAm == Vec(<<8, 0, 1, 0, 7, 0, 0, 2, 1, 10, 0, 1>>)

FrameG == Vec(<<1, 0, 8, 0, 1, 0, 2, 10, 0, 1, 0, 7>>)

FrameSilent == Vec(<<0, 0, 0, 0, 0, 0, 0, 0, 0, 0, 0, 0>>)

\* best major and best minor score less than 0.05 apart
FrameAmbiguous == Vec(<<9, 0, 2, 0, 8, 0, 0, 6, 0, 9, 0, 2>>)

Run(seconds, extra, frame) == [n |-> seconds * sr + extra, frame |-> frame]

Audio ==
    [long   |-> [fault |-> "none", tempo |-> 12004, energy |-> 1532, cent |-> 210417,
                 y |-> <<Run(12, 0, FrameG), Run(14, 0, FrameC), Run(13, 0, FrameAm),
                         Run(9, 0, FrameC)>>],
     short  |-> [fault |-> "none", tempo |-> 9549, energy |-> 99, cent |-> 154321,
                 y |-> <<Run(3, 0, FrameAm), Run(2, 500, FrameC)>>],
     silent |-> [fault |-> "none", tempo |-> 0, energy |-> 0, cent |-> 0,
                 y |-> <<Run(8, 0, FrameSilent)>>],
     broken |-> [fault |-> "load", tempo |-> 0, energy |-> 0, cent |-> 0, y |-> << >>],
     noisy  |-> [fault |-> "analyze", tempo |-> 0, energy |-> 0, cent |-> 0,
                 y |-> <<Run(4, 0, FrameC)>>],
     nobeat |-> [fault |-> "features", tempo |-> 0, energy |-> 2210, cent |-> 99000,
                 y |-> <<Run(20, 0, FrameC), Run(6, 0, FrameG)>>]]

\* A path: the directory, the pieces of the file name between " - ", the
\* extension; its file's MD5 (None when the file cannot be read for hashing)
\* and its audio.
Disk ==
    [p1 |-> [stem |-> <<"Artist", "Track">>, md5 |-> "h1", audio |-> "long"],
     p2 |-> [stem |-> <<"Clip">>, md5 |-> "h2", audio |-> "short"],
     p3 |-> [stem |-> <<"Bad", "File">>, md5 |-> "h3", audio |-> "broken"],
     p4 |-> [stem |-> <<"A", "B", "C">>, md5 |-> "h1", audio |-> "long"],
     p5 |-> [stem |-> <<"Locked">>, md5 |-> None, audio |-> "short"],
     p6 |-> [stem |-> <<"Nothing">>, md5 |-> "h6", audio |-> "silent"],
     p7 |-> [stem |-> <<"Band", "Drone">>, md5 |-> "h7", audio |-> "nobeat"],
     p8 |-> [stem |-> <<"Hiss">>, md5 |-> "h8", audio |-> "noisy"]]

Paths == DOMAIN Disk

Hashes == {Disk[p].md5 : p \in Paths} \ {None}

MaxFiles == 2

RECURSIVE SeqsUpTo(_, _)
SeqsUpTo(S, n) ==
    IF n = 0 THEN {<< >>}
    ELSE LET shorter == SeqsUpTo(S, n - 1)
         IN  shorter \cup {Append(q, x) : q \in {r \in shorter : Len(r) = n - 1}, x \in S}

Batches == SeqsUpTo(Paths, MaxFiles)

\* the analysed windows of the audios that load
Windows == {Window(Audio[a].y) : a \in {b \in DOMAIN Audio : Audio[b].fault # "load"}}

(***************************************************************************)
(* analyze_files and calculate_key_transitions.                            *)
(***************************************************************************)
\* os.path.basename(filepath)
Basename(path) == [stem |-> Disk[path].stem, ext |-> "mp3"]

\* extract_metadata_from_filename: split(" - ", 1) of the name without extension
extract_metadata_from_filename(path) ==
    LET name == Disk[path].stem
    IN  IF Len(name) > 1
        THEN [artist |-> <<name[1]>>, track |-> Tail(name)]
        ELSE [artist |-> <<"Unknown">>, track |-> name]

\* {"file": ..., "artist": ..., "track": ..., **analysis}
Row(path, analysis) ==
    [f \in {"file", "artist", "track"} \cup DOMAIN analysis |->
        IF f = "file" THEN Basename(path)
        ELSE IF f = "artist" THEN extract_metadata_from_filename(path).artist
        ELSE IF f = "track" THEN extract_metadata_from_filename(path).track
        ELSE analysis[f]]

\* pd.DataFrame(list of dictionaries): the columns are the dictionaries' keys
DataFrame(rows) ==
    [columns |-> UNION {DOMAIN rows[j] : j \in 1..Len(rows)}, rows |-> rows]

\* key_to_num.get(key, -1)
KeyNum_default_minus_one(key) ==
    IF \E k \in PC : KEY_NAMES[k] = key THEN CHOOSE k \in PC : KEY_NAMES[k] = key ELSE -1

\* key_to_num.get(key, 0)
KeyNum(key) ==
    IF \E k \in PC : KEY_NAMES[k] = key THEN CHOOSE k \in PC : KEY_NAMES[k] = key ELSE 0

\* df['key'].map(key_to_num): NaN where the key is no key name
KeyNumColumn(key) ==
    IF \E k \in PC : KEY_NAMES[k] = key THEN CHOOSE k \in PC : KEY_NAMES[k] = key ELSE NaN

Abs(n) == IF n < 0 THEN 0 - n ELSE n

Distance_forward(curr_num, next_num) == (next_num - curr_num) % 12

Distance(curr_num, next_num) ==
    Min(Abs(next_num - curr_num), 12 - Abs(next_num - curr_num))

Transition(rows, i) ==
    [position |-> i,
     from |-> <<rows[i].key, rows[i].mode>>,
     to |-> <<rows[i + 1].key, rows[i + 1].mode>>,
     distance |-> Distance(KeyNum(rows[i].key), KeyNum(rows[i + 1].key))]

\* the loop of lines 325-337 stopping one pair early
TransitionsFrom_skip_last(rows) == [i \in 1..(Len(rows) - 2) |-> Transition(rows, i)]

\* the loop of lines 325-337
TransitionList(rows) == [i \in 1..(Len(rows) - 1) |-> Transition(rows, i)]

\* calculate_key_transitions(df): df as the call leaves it, and what the call
\* returns or raises
calculate_key_transitions(df) ==
    IF "key" \notin df.columns
    THEN [df |-> df, raised |-> "KeyError", returned |-> << >>]
    ELSE [df |-> [columns |-> df.columns \cup {"key_num"},
                  rows |-> [j \in 1..Len(df.rows) |->
                              [f \in DOMAIN df.rows[j] \cup {"key_num"} |->
                                  IF f = "key_num" THEN KeyNumColumn(df.rows[j].key)
                                  ELSE df.rows[j][f]]]],
          raised |-> None,
          returned |-> <<DataFrame(TransitionList(df.rows))>>]

(***************************************************************************)
(* The program as a state machine.                                         *)
(***************************************************************************)
VARIABLES
    cache_dir,    \* CACHE_DIR: for each MD5, << >> or <<the stored document>>
    pc,           \* where the program is
    call,         \* the arguments of the running analyze_files call
    i,            \* analyze_files: the index of the current file, from 0
    results,      \* analyze_files: the rows so far
    progress,     \* the calls of progress_callback so far, as <<index, total>>
    loc,          \* detect_key_librosa: file_hash, y and the key analysis
    trace,        \* detect_key_librosa: the steps run by the current call
    ret,          \* what the last detect_key_librosa call returned
    df,           \* the table analyze_files returned, << >> before
    transitions,  \* the outcome of calculate_key_transitions, << >> before
    first,        \* for each MD5, the results computed and saved since the
                  \* cache was last cleared: << >> or <<results>>
    cache0,       \* CACHE_DIR as it was when analyze_files was called
    analysis,     \* lines 161-239 as a table: the key analysis of each window
                  \* (a function of the window alone, worked out once)
    probe         \* a function under test: its inputs and outputs

vars == <<cache_dir, pc, call, i, results, progress, loc, trace, ret, df,
          transitions, first, cache0, analysis, probe>>

machine == <<cache_dir, pc, call, i, results, progress, loc, trace, ret, df,
             transitions, first, cache0, analysis>>

NoCall == [files |-> << >>, use_cache |-> TRUE, callback |-> FALSE]

NoLoc == [file_hash |-> None, y |-> << >>, analysis |-> << >>]

MachineInit ==
    /\ cache_dir = [h \in Hashes |-> << >>]
    /\ pc = "idle"
    /\ call = NoCall
    /\ i = 0
    /\ results = << >>
    /\ progress = << >>
    /\ loc = NoLoc
    /\ trace = << >>
    /\ ret = << >>
    /\ df = << >>
    /\ transitions = << >>
    /\ first = [h \in Hashes |-> << >>]
    /\ cache0 = [h \in Hashes |-> << >>]
    /\ analysis = Array([y \in Windows |-> KeyAnalysis(y)])

Init == MachineInit /\ probe = [op |-> "none"]

path == call.files[i + 1]

audio == Audio[Disk[path].audio]

\* analyze_files(files, progress_callback, use_cache) is called
AnalyzeFiles ==
    /\ pc = "idle"
    /\ \E files \in Batches, use_cache \in BOOLEAN, callback \in BOOLEAN :
          call' = [files |-> files, use_cache |-> use_cache, callback |-> callback]
    /\ pc' = "loop"
    /\ i' = 0
    /\ results' = << >>
    /\ progress' = << >>
    /\ df' = << >>
    /\ transitions' = << >>
    /\ ret' = << >>
    /\ trace' = << >>
    /\ cache0' = cache_dir
    /\ UNCHANGED <<cache_dir, loc, first, analysis, probe>>

\* lines 302-307: the loop takes the next file, reports progress and calls
\* detect_key_librosa
LoopItem ==
    /\ pc = "loop"
    /\ i < Len(call.files)
    /\ progress' = IF call.callback THEN Append(progress, <<i, Len(call.files)>>)
                                    ELSE progress
    /\ pc' = "hash"
    /\ trace' = << >>
    /\ loc' = NoLoc
    /\ ret' = << >>
    /\ UNCHANGED <<cache_dir, call, i, results, df, transitions, first, cache0, analysis, probe>>

\* line 317: the loop is over and the table is returned
LoopEnd ==
    /\ pc = "loop"
    /\ i = Len(call.files)
    /\ df' = <<DataFrame(results)>>
    /\ pc' = "done"
    /\ UNCHANGED <<cache_dir, call, i, results, progress, loc, trace, ret,
                   transitions, first, cache0, analysis, probe>>

\* line 146
GetFileHash ==
    /\ pc = "hash"
    /\ loc' = [loc EXCEPT !.file_hash = Disk[path].md5]
    /\ trace' = Append(trace, "hash")
    /\ pc' = IF call.use_cache THEN "cache_read" ELSE "load"
    /\ UNCHANGED <<cache_dir, call, i, results, progress, ret, df, transitions,
                   first, cache0, analysis, probe>>

\* lines 147-150
CacheRead ==
    /\ pc = "cache_read"
    /\ trace' = Append(trace, "cache_read")
    /\ LET cached == load_from_cache(cache_dir, loc.file_hash)
       IN  IF cached # << >>
           THEN ret' = cached /\ pc' = "return"
           ELSE ret' = ret /\ pc' = "load"
    /\ UNCHANGED <<cache_dir, call, i, results, progress, loc, df, transitions,
                   first, cache0, analysis, probe>>

\* lines 153-159, and the except clause if librosa.load raises
Load ==
    /\ pc = "load"
    /\ trace' = Append(trace, "load")
    /\ IF audio.fault = "load"
       THEN ret' = <<Sentinel>> /\ pc' = "return" /\ loc' = loc
       ELSE ret' = ret /\ pc' = "analyze" /\ loc' = [loc EXCEPT !.y = Window(audio.y)]
    /\ UNCHANGED <<cache_dir, call, i, results, progress, df, transitions,
                   first, cache0, analysis, probe>>

\* lines 161-243, and the except clause if the chroma extraction raises
Analyze ==
    /\ pc = "analyze"
    /\ trace' = Append(trace, "analyze")
    /\ IF audio.fault = "analyze"
       THEN ret' = <<Sentinel>> /\ pc' = "return" /\ loc' = loc
       ELSE ret' = ret /\ pc' = "features"
            /\ loc' = [loc EXCEPT !.analysis = <<analysis[loc.y]>>]
    /\ UNCHANGED <<cache_dir, call, i, results, progress, df, transitions,
                   first, cache0, analysis, probe>>

\* the feature step with a failure handed on to the cache write
Features_cache_failure ==
    /\ pc = "features"
    /\ trace' = Append(trace, "features")
    /\ ret' = IF audio.fault = "features"
              THEN <<Sentinel>>
              ELSE <<BuildResults(loc.analysis[1].key_index, loc.analysis[1].mode,
                                  loc.analysis[1].confidence,
                                  loc.analysis[1].alternative_keys,
                                  audio.tempo, audio.energy, audio.cent)>>
    /\ pc' = IF call.use_cache THEN "cache_write" ELSE "return"
    /\ UNCHANGED <<cache_dir, call, i, results, progress, loc, df, transitions,
                   first, cache0, analysis, probe>>

\* lines 245-265, and the except clause if a feature call raises
Features ==
    /\ pc = "features"
    /\ trace' = Append(trace, "features")
    /\ IF audio.fault = "features"
       THEN ret' = <<Sentinel>> /\ pc' = "return"
       ELSE /\ ret' = <<BuildResults(loc.analysis[1].key_index, loc.analysis[1].mode,
                                     loc.analysis[1].confidence,
                                     loc.analysis[1].alternative_keys,
                                     audio.tempo, audio.energy, audio.cent)>>
            /\ pc' = IF call.use_cache THEN "cache_write" ELSE "return"
    /\ UNCHANGED <<cache_dir, call, i, results, progress, loc, df, transitions,
                   first, cache0, analysis, probe>>

\* lines 267-270
CacheWrite ==
    /\ pc = "cache_write"
    /\ trace' = Append(trace, "cache_write")
    /\ cache_dir' = save_to_cache(cache_dir, loc.file_hash, ret[1])
    /\ first' = IF loc.file_hash # None /\ first[loc.file_hash] = << >>
                THEN [first EXCEPT ![loc.file_hash] = ret]
                ELSE first
    /\ pc' = "return"
    /\ UNCHANGED <<call, i, results, progress, loc, ret, df, transitions, cache0, analysis,
                   probe>>

\* the loop with the rows of failed files left out
AppendRow_drop_failed ==
    /\ pc = "return"
    /\ results' = IF ret[1].key = "Unknown" THEN results
                                            ELSE Append(results, Row(path, ret[1]))
    /\ i' = i + 1
    /\ pc' = "loop"
    /\ UNCHANGED <<cache_dir, call, progress, loc, trace, ret, df, transitions,
                   first, cache0, analysis, probe>>

\* lines 309-315: detect_key_librosa has returned and the row is appended
AppendRow ==
    /\ pc = "return"
    /\ results' = Append(results, Row(path, ret[1]))
    /\ i' = i + 1
    /\ pc' = "loop"
    /\ UNCHANGED <<cache_dir, call, progress, loc, trace, ret, df, transitions,
                   first, cache0, analysis, probe>>

\* calculate_key_transitions is called on the returned table
CalculateKeyTransitions ==
    /\ pc = "done"
    /\ LET out == calculate_key_transitions(df[1])
       IN  /\ df' = <<out.df>>
           /\ transitions' = <<[raised |-> out.raised, returned |-> out.returned]>>
    /\ pc' = "shown"
    /\ UNCHANGED <<cache_dir, call, i, results, progress, loc, trace, ret, first,
                   cache0, analysis, probe>>

\* the caller is done with the table; the session goes on to its next batch
Finish ==
    /\ pc \in {"done", "shown"}
    /\ pc' = "idle"
    /\ call' = NoCall
    /\ i' = 0
    /\ results' = << >>
    /\ progress' = << >>
    /\ loc' = NoLoc
    /\ trace' = << >>
    /\ ret' = << >>
    /\ df' = << >>
    /\ transitions' = << >>
    /\ UNCHANGED <<cache_dir, first, cache0, analysis, probe>>

\* clear_cache
ClearCache ==
    /\ pc = "idle"
    /\ cache_dir' = [h \in Hashes |-> << >>]
    /\ first' = [h \in Hashes |-> << >>]
    /\ UNCHANGED <<pc, call, i, results, progress, loc, trace, ret, df,
                   transitions, cache0, analysis, probe>>

Next ==
    \/ AnalyzeFiles
    \/ LoopItem
    \/ LoopEnd
    \/ GetFileHash
    \/ CacheRead
    \/ Load
    \/ Analyze
    \/ Features
    \/ CacheWrite
    \/ AppendRow
    \/ CalculateKeyTransitions
    \/ Finish
    \/ ClearCache

Spec == Init /\ [][Next]_vars

(***************************************************************************)
(* The consensus rule on its own: two estimates are drawn and Resolve is   *)
(* applied to them.                                                        *)
(***************************************************************************)
\* confidences around the 1.2 factor (60000 = 1.2 * 50000), 0, 1 and NaN
ConfGrid == {NaN, 0, 30000, 50000, 59999, 60000, 60001, 72000, 100000}

TestKeys == {0, 7}

Estimates == [key_idx : TestKeys, mode : Modes, confidence : ConfGrid]

ResolverInit ==
    /\ MachineInit
    /\ probe \in {[op |-> "estimates", e1 |-> a, e2 |-> b] : a \in Estimates, b \in Estimates}

ResolveStep ==
    /\ probe.op = "estimates"
    /\ probe' = [op |-> "Resolve", e1 |-> probe.e1, e2 |-> probe.e2,
                 out |-> Resolve(probe.e1, probe.e2)]
    /\ UNCHANGED machine

\* energies around 0.01, in the unit of an audio's energy
Energies == {0, 99, 100, 101, 1532}

SampleAlternatives ==
    << [pair |-> "tuple", scale |-> <<"E", "m">>, conf |-> 742],
       [pair |-> "tuple", scale |-> <<"G">>, conf |-> 657],
       [pair |-> "tuple", scale |-> <<"A", "m">>, conf |-> 651] >>

\* lines 241-265 applied to the consensus
BuildResultsStep ==
    /\ probe.op = "Resolve"
    /\ \E energy \in Energies :
          probe' = [op |-> "BuildResults", final |-> probe.out, energy |-> energy,
                    alternative_keys |-> SampleAlternatives,
                    out |-> BuildResults(probe.out.key_index, probe.out.mode,
                                         probe.out.confidence, SampleAlternatives,
                                         12004, energy, 210417)]
    /\ UNCHANGED machine

ResolverNext == ResolveStep \/ BuildResultsStep

SpecResolver == ResolverInit /\ [][ResolverNext]_vars

(***************************************************************************)
(* The estimators on their own: a waveform is drawn and an estimator is    *)
(* applied to it, or a rotated template is drawn and correlated with its   *)
(* own template.                                                           *)
(***************************************************************************)
TestFrames == {FrameC, FrameAm, FrameG, FrameSilent, FrameAmbiguous}

TestWaveforms ==
    {<<Run(seconds, extra, Roll(frame, k))>> :
        seconds \in {1, 5, 12}, extra \in {0, 1}, frame \in TestFrames, k \in {0, 5}}
    \cup {<<Run(11, 0, FrameC), Run(seconds, 0, frame)>> :
            seconds \in {1, 10}, frame \in TestFrames}

EstimatorsInit ==
    /\ MachineInit
    /\ probe \in {[op |-> "waveform", y |-> y] : y \in TestWaveforms}
                 \cup {[op |-> "template", X |-> n, k |-> k] : n \in 1..Len(profiles), k \in PC}

\* scores: the weighted score arrays of lines 63-69, as the call computes them
SinglePassStep ==
    /\ probe.op = "waveform"
    /\ probe' = [op |-> "detect_key_enhanced", y |-> probe.y,
                 scores |-> WeightedScores(ChromaNorm(probe.y)),
                 out |-> detect_key_enhanced(probe.y)]
    /\ UNCHANGED machine

\* segments: the ranges handed to detect_key_enhanced; scores and votes: the
\* weighted score arrays and the estimate of each of them
SegmentVotingStep ==
    /\ probe.op = "waveform"
    /\ LET segments == SegmentRanges(probe.y, 0, NSegments(probe.y))
       IN  probe' = [op |-> "segment_based_detection", y |-> probe.y,
                     segments |-> segments,
                     scores |-> [j \in 1..Len(segments) |->
                                   WeightedScores(ChromaNorm(
                                       Slice(probe.y, segments[j].start, segments[j].end)))],
                     votes |-> SegmentVotes(probe.y, 0, NSegments(probe.y)),
                     out |-> segment_based_detection(probe.y)]
    /\ UNCHANGED machine

\* a waveform times c: the magnitudes the chroma is made of are linear in the
\* amplitude, so every frame is multiplied by c
Amplified(y, c) ==
    [j \in 1..Len(y) |-> [n |-> y[j].n, frame |-> Array([b \in PC |-> c * y[j].frame[b]])]]

Gains == {2, 3, 5}

\* the correlator on chroma_norm and on c * chroma_norm, and the single pass
\* on y and on c * y
ScaleStep ==
    /\ probe.op = "waveform"
    /\ \E c \in Gains :
          LET v == ChromaNorm(probe.y)
              cv == Array([b \in PC |-> c * v[b]])
          IN  probe' = [op |-> "scaled", y |-> probe.y, c |-> c,
                        plain |-> [n \in 1..Len(profiles) |->
                                     correlate_with_profiles(v, profiles[n].major,
                                                             profiles[n].minor)],
                        scaled |-> [n \in 1..Len(profiles) |->
                                      correlate_with_profiles(cv, profiles[n].major,
                                                              profiles[n].minor)],
                        key |-> detect_key_enhanced(probe.y),
                        scaled_key |-> detect_key_enhanced(Amplified(probe.y, c))]
    /\ UNCHANGED machine

\* lines 161-239 on a waveform: both estimates, the score arrays, the
\* consensus and the alternatives
KeyAnalysisStep ==
    /\ probe.op = "waveform"
    /\ LET e1 == detect_key_enhanced(probe.y)
           e2 == segment_based_detection(probe.y)
           scores == WeightedScores(ChromaNorm(probe.y))
           final == Resolve(e1, e2)
       IN  probe' = [op |-> "KeyAnalysis", y |-> probe.y, e1 |-> e1, e2 |-> e2,
                     segments |-> SegmentRanges(probe.y, 0, NSegments(probe.y)),
                     scores |-> scores, final |-> final,
                     alternative_keys |-> AlternativeKeys(scores, final.key_index,
                                                          final.mode)]
    /\ UNCHANGED machine

(***************************************************************************)
(* Template sets.  The templates are module-level arrays (lines 10-15) and *)
(* the list of lines 57-61; nothing in the program looks at their lengths  *)
(* or at the sum of the weights.  pearsonr raises ValueError when its two  *)
(* arguments differ in length, inside the try of detect_key_librosa.       *)
(***************************************************************************)
\* TEMPERLEY_MAJOR with its last value missing
ShortTemplate == [b \in 0..10 |-> TEMPERLEY_MAJOR[b]]

\* the template sets a build of the program may carry
Configs ==
    { profiles,
      [profiles EXCEPT ![2].major = ShortTemplate],
      [profiles EXCEPT ![3].weight = 5] }

\* lines 63-69 under the template set P
RECURSIVE AccumulateScoresOf(_, _, _)
AccumulateScoresOf(P, chroma_norm, n) ==
    IF n = 0 THEN [mode \in Modes |-> [shift \in PC |-> 0]]
    ELSE LET before == AccumulateScoresOf(P, chroma_norm, n - 1)
             corrs == correlate_with_profiles(chroma_norm, P[n].major, P[n].minor)
         IN  [mode \in Modes |->
                 Array([shift \in PC |-> FAdd(before[mode][shift],
                                              FTimes(corrs[mode][shift], P[n].weight))])]

\* detect_key_enhanced under the template set P: what it raises or returns
detect_key_enhanced_under(P, y) ==
    IF \E n \in 1..Len(P) : DOMAIN P[n].major # PC \/ DOMAIN P[n].minor # PC
    THEN [raised |-> "ValueError", returned |-> << >>]
    ELSE [raised |-> None,
          returned |-> <<KeyFromScores(Array(AccumulateScoresOf(P, ChromaNorm(y), Len(P))))>>]

\* line 162 in a program built with the template set config, and the except
\* clause of lines 272-284 when it raises
ConfiguredStep ==
    /\ probe.op = "waveform"
    /\ \E config \in Configs :
          LET r == detect_key_enhanced_under(config, probe.y)
          IN  probe' = [op |-> "configured", y |-> probe.y, config |-> config,
                        raised |-> r.raised,
                        result |-> IF r.raised # None THEN <<Sentinel>> ELSE << >>,
                        estimate |-> r.returned]
    /\ UNCHANGED machine

\* the pitch-class vector is template X's major vector rolled by k
CorrelateStep ==
    /\ probe.op = "template"
    /\ probe' = [op |-> "correlate_with_profiles", X |-> probe.X, k |-> probe.k,
                 out |-> correlate_with_profiles(Roll(profiles[probe.X].major, probe.k),
                                                 profiles[probe.X].major,
                                                 profiles[probe.X].minor)]
    /\ UNCHANGED machine

EstimatorsNext ==
    \/ SinglePassStep
    \/ SegmentVotingStep
    \/ CorrelateStep
    \/ ScaleStep
    \/ KeyAnalysisStep
    \/ ConfiguredStep

SpecEstimators == EstimatorsInit /\ [][EstimatorsNext]_vars

(***************************************************************************)
(* Key arithmetic on its own: a result table is drawn and                  *)
(* calculate_key_transitions is applied to it, or a key is drawn and       *)
(* relative_major_minor is applied to it and to its own result.            *)
(***************************************************************************)
MaxRows == 2

TableRows ==
    {[key |-> KEY_NAMES[k], mode |-> m] : k \in PC, m \in Modes}
    \cup {[key |-> "Unknown", mode |-> "unknown"]}

Tables == {DataFrame(rows) : rows \in SeqsUpTo(TableRows, MaxRows)}

KeysInit ==
    /\ MachineInit
    /\ probe \in {[op |-> "table", df |-> t] : t \in Tables}
                 \cup {[op |-> "key", key_index |-> k, mode |-> m] : k \in PC, m \in Modes}

TransitionsStep ==
    /\ probe.op = "table"
    /\ probe' = [op |-> "calculate_key_transitions", df |-> probe.df,
                 out |-> calculate_key_transitions(probe.df)]
    /\ UNCHANGED machine

\* the key and mode that the string relative_major_minor returned names
ParseKey(words) == [key_index |-> KeyNum(words[1]), mode |-> words[2]]

RelativeStep ==
    /\ probe.op = "key"
    /\ LET once == relative_major_minor(probe.key_index, probe.mode)
           back == ParseKey(once)
       IN  probe' = [op |-> "relative_major_minor", key_index |-> probe.key_index,
                     mode |-> probe.mode, once |-> once,
                     twice |-> relative_major_minor(back.key_index, back.mode)]
    /\ UNCHANGED machine

KeysNext == TransitionsStep \/ RelativeStep

SpecKeys == KeysInit /\ [][KeysNext]_vars

(***************************************************************************)
(* The window of lines 153-159 on its own: a recording is drawn and Window *)
(* is applied to it.  A recording has 10 seconds of G major chroma, a      *)
(* middle part, and 10 seconds of A minor chroma.                          *)
(***************************************************************************)
\* durations in seconds, around 30 s and around 130 s
Durations == {21, 25, 29, 30, 31, 45, 60, 100, 129, 130, 131, 150, 200, 300}

Recordings ==
    {<<Run(10, 0, FrameG), Run(seconds - 20, extra, frame), Run(10, 0, FrameAm)>> :
        seconds \in Durations, extra \in {0, 1, sr \div 2}, frame \in {FrameC, FrameAmbiguous}}

WindowInit ==
    /\ MachineInit
    /\ probe \in {[op |-> "recording", y |-> y] : y \in Recordings}

\* lines 156-159, and the segments line 165 then makes of the window
WindowStep ==
    /\ probe.op = "recording"
    /\ LET w == Window(probe.y)
       IN  probe' = [op |-> "Window", y |-> probe.y, out |-> w,
                     segments |-> SegmentRanges(w, 0, NSegments(w))]
    /\ UNCHANGED machine

SpecWindow == WindowInit /\ [][WindowStep]_vars

(***************************************************************************)
(* Segment voting on waveforms of three segments, each of one chroma.      *)
(***************************************************************************)
VoteFrames == {FrameC, FrameAm, Roll(FrameAm, 5), FrameG}

ThreeSegments ==
    {<<Run(segment_duration, 0, a), Run(segment_duration, 0, b), Run(segment_duration, 0, c)>> :
        a \in VoteFrames, b \in VoteFrames, c \in VoteFrames}

VotingInit ==
    /\ MachineInit
    /\ probe \in {[op |-> "waveform", y |-> y] : y \in ThreeSegments}

\* votes: the estimates of the usable segments, in order
VotingStep ==
    /\ probe.op = "waveform"
    /\ probe' = [op |-> "segment_based_detection", y |-> probe.y,
                 votes |-> SegmentVotes(probe.y, 0, NSegments(probe.y)),
                 out |-> segment_based_detection(probe.y)]
    /\ UNCHANGED machine

SpecVoting == VotingInit /\ [][VotingStep]_vars

(***************************************************************************)
(* Properties                                                              *)
(***************************************************************************)
Numeric(c) == ~IsNaN(c)

\* C1 (SpecResolver): for numeric confidences c1 and c2 the consensus is
\* estimate 1 unchanged if c1 > 1.2*c2; else estimate 2 unchanged if
\* c2 > 1.2*c1; else, if the two estimates agree, their key with confidence
\* 1.1*(c1+c2)/2; else the estimate of the higher confidence (estimate 1 on
\* a tie) with its confidence times 0.9.  The rules are tried in this order.
C1_RuleOrder ==
    (probe.op = "Resolve" /\ Numeric(probe.e1.confidence) /\ Numeric(probe.e2.confidence))
    => LET k1 == probe.e1.key_idx
           m1 == probe.e1.mode
           c1 == probe.e1.confidence
           k2 == probe.e2.key_idx
           m2 == probe.e2.mode
           c2 == probe.e2.confidence
       IN  probe.out =
             IF 10 * c1 > 12 * c2
             THEN [key_index |-> k1, mode |-> m1, confidence |-> c1]
             ELSE IF 10 * c2 > 12 * c1
             THEN [key_index |-> k2, mode |-> m2, confidence |-> c2]
             ELSE IF k1 = k2 /\ m1 = m2
             THEN [key_index |-> k1, mode |-> m1, confidence |-> (11 * (c1 + c2)) \div 20]
             ELSE IF c1 >= c2
             THEN [key_index |-> k1, mode |-> m1, confidence |-> (9 * c1) \div 10]
             ELSE [key_index |-> k2, mode |-> m2, confidence |-> (9 * c2) \div 10]

\* two agreeing estimates, the first far more confident: no 1.1 bonus
C1_Witness ==
    /\ probe.op = "Resolve"
    /\ probe.e1.key_idx = probe.e2.key_idx
    /\ probe.e1.mode = probe.e2.mode
    /\ probe.e1.confidence = 72000
    /\ probe.e2.confidence = 50000
    /\ probe.out.confidence = 72000

\* the source at index j of the running batch raises in detect_key_librosa
Fails(p) == Audio[Disk[p].audio].fault # "none"

\* what lines 153-265 compute for a file that does not fail
FreshResults(p) ==
    LET a == Audio[Disk[p].audio]
        ka == analysis[Window(a.y)]
    IN  BuildResults(ka.key_index, ka.mode, ka.confidence, ka.alternative_keys,
                     a.tempo, a.energy, a.cent)

\* the rows of a batch none of whose files fails, from the cache as given
RECURSIVE RowsWithoutFailure(_, _, _)
RowsWithoutFailure(files, use_cache, cache) ==
    IF files = << >> THEN << >>
    ELSE LET p == Head(files)
             cached == IF use_cache THEN load_from_cache(cache, Disk[p].md5) ELSE << >>
             r == IF cached # << >> THEN cached[1] ELSE FreshResults(p)
             after == IF use_cache /\ cached = << >>
                      THEN save_to_cache(cache, Disk[p].md5, r) ELSE cache
         IN  <<Row(p, r)>> \o RowsWithoutFailure(Tail(files), use_cache, after)

\* the entries of rows whose file, at the same index of files, does not fail
RECURSIVE OfSound(_, _)
OfSound(rows, files) ==
    IF files = << >> \/ rows = << >> THEN << >>
    ELSE (IF Fails(Head(files)) THEN << >> ELSE <<Head(rows)>>)
         \o OfSound(Tail(rows), Tail(files))

\* C2 (Spec): the table of a batch of N files has N rows, row j made from
\* file j; the row of a file that fails has key "Unknown" and confidence 0;
\* the rows of the other files are the rows of the batch without the failing
\* files, run from the same cache.
C2_BatchResilience ==
    pc = "done"
    => LET rows == df[1].rows
       IN  /\ Len(rows) = Len(call.files)
           /\ \A j \in 1..Len(rows) :
                 /\ rows[j].file = Basename(call.files[j])
                 /\ Fails(call.files[j])
                       => rows[j].key = "Unknown" /\ rows[j].confidence = 0
           /\ OfSound(rows, call.files)
                = RowsWithoutFailure(OfSound(call.files, call.files),
                                     call.use_cache, cache0)

\* a batch whose first file fails and whose second file is analysed
C2_Witness ==
    /\ pc = "done"
    /\ Len(call.files) = 2
    /\ Fails(call.files[1])
    /\ ~Fails(call.files[2])
    /\ df[1].rows[1].key = "Unknown"
    /\ df[1].rows[2].key # "Unknown"

\* C3 (SpecEstimators): the confidence returned by detect_key_enhanced and
\* the confidence returned by segment_based_detection lie in [0, 1].
C3_ConfidenceBounds ==
    probe.op \in {"detect_key_enhanced", "segment_based_detection"}
    => /\ Numeric(probe.out.confidence)
       /\ probe.out.confidence >= 0
       /\ probe.out.confidence <= ConfScale

\* C4 (SpecEstimators): correlating template X's major vector rolled by k
\* with template X gives a major score array whose maximum is at index k,
\* and only there.
C4_RotationCorrectness ==
    probe.op = "correlate_with_profiles"
    => /\ ArgMax(probe.out.major) = probe.k
       /\ \A j \in PC \ {probe.k} : FLt(probe.out.major[j], probe.out.major[probe.k])

C4_Witness ==
    /\ probe.op = "correlate_with_profiles"
    /\ probe.X = 3
    /\ probe.k = 7
    /\ ArgMax(probe.out.major) = 7

IsKeyName(key) == \E k \in PC : KEY_NAMES[k] = key

\* C5 (SpecKeys): between two rows with tonic indices a and b the distance
\* is min(|a-b|, 12-|a-b|); it lies in 0..6, is the distance from b to a,
\* is 0 exactly when a = b, whatever the modes of the two rows.
C5_TransitionDistance ==
    (probe.op = "calculate_key_transitions" /\ probe.out.returned # << >>)
    => \A j \in 1..Len(probe.out.returned[1].rows) :
          LET r == probe.df.rows
              a == KeyNum(r[j].key)
              b == KeyNum(r[j + 1].key)
              d == probe.out.returned[1].rows[j].distance
          IN  (IsKeyName(r[j].key) /\ IsKeyName(r[j + 1].key))
              => /\ d = Min(Abs(a - b), 12 - Abs(a - b))
                 /\ d \in 0..6
                 /\ d = Distance(b, a)
                 /\ (d = 0) <=> (a = b)

\* C major followed by G major: distance 5
C5_Witness ==
    /\ probe.op = "calculate_key_transitions"
    /\ Len(probe.df.rows) = 2
    /\ probe.df.rows[1] = [key |-> "C", mode |-> "major"]
    /\ probe.df.rows[2] = [key |-> "G", mode |-> "major"]
    /\ probe.out.returned[1].rows[1].distance = 5

C7_EmptyBatch ==
    (pc = "shown" /\ call.files = << >>)
    => /\ df[1].rows = << >>
       /\ transitions[1].raised = None
       /\ transitions[1].returned # << >>
       /\ transitions[1].returned[1].rows = << >>

\* C8 (SpecKeys): the relative of (k, major) is ((k-3) mod 12, minor), the
\* relative of (k, minor) is ((k+3) mod 12, major), and the relative of the
\* relative is the key and mode started from.
C8_RelativeKeySymmetry ==
    probe.op = "relative_major_minor"
    => /\ probe.mode = "major"
             => probe.once = <<KEY_NAMES[(probe.key_index - 3) % 12], "minor">>
       /\ probe.mode = "minor"
             => probe.once = <<KEY_NAMES[(probe.key_index + 3) % 12], "major">>
       /\ probe.twice = <<KEY_NAMES[probe.key_index], probe.mode>>

\* C major -> A minor -> C major
C8_Witness ==
    /\ probe.op = "relative_major_minor"
    /\ probe.key_index = 0
    /\ probe.mode = "major"
    /\ probe.once = <<"A", "minor">>
    /\ probe.twice = <<"C", "major">>

\* detect_key_librosa returns what the cache gave it
Hit == pc = "return" /\ trace = <<"hash", "cache_read">>

InTrace(step) == \E n \in 1..Len(trace) : trace[n] = step

\* C9 (Spec): with caching on, the checksum and the cache read come before
\* every other step; a hit returns the cached result with no pipeline step
\* and no cache write; a miss runs the pipeline and then writes the result
\* under the same checksum; so analysing a file again, with no cache clear
\* in between, is a hit that returns the first analysis's result.
C9_CacheDiscipline ==
    /\ (call.use_cache /\ Len(trace) >= 1) => trace[1] = "hash"
    /\ (call.use_cache /\ Len(trace) >= 2) => trace[2] = "cache_read"
    /\ (call.use_cache /\ pc = "return" /\ loc.file_hash # None
           /\ first[loc.file_hash] # << >> /\ ~InTrace("cache_write"))
          => Hit
    /\ (pc = "return" /\ InTrace("cache_write") /\ loc.file_hash # None)
          => cache_dir[loc.file_hash] = <<json_dump(ret[1])>>
    /\ (Hit /\ first[loc.file_hash] # << >>) => ret = first[loc.file_hash]

\* the detect_key_librosa call that is returning failed: its last step is
\* the one in which the file's audio raises
Failed == pc = "return" /\ trace # << >> /\ audio.fault = trace[Len(trace)]

\* C10 (Spec): every result detect_key_librosa returns has exactly the nine
\* fields; a failed call returns key "Unknown", mode "unknown", confidence,
\* tempo, energy and brightness 0 and no alternatives; and the key of a
\* result is "Unknown" exactly when the call failed.
C10_FixedShape ==
    pc = "return"
    => /\ Len(ret) = 1
       /\ DOMAIN ret[1] = Fields
       /\ Failed => /\ ret[1].key = "Unknown"
                    /\ ret[1].mode = "unknown"
                    /\ ret[1].confidence = 0
                    /\ ret[1].tempo = 0
                    /\ ret[1].energy = 0
                    /\ ret[1].brightness = 0
                    /\ ret[1].alternative_keys = << >>
       /\ (ret[1].key = "Unknown") <=> Failed

\* a call that resolved a key and then failed in the feature step
C10_Witness ==
    /\ pc = "return"
    /\ Failed
    /\ trace = <<"hash", "cache_read", "load", "analyze", "features">>
    /\ ret[1].key = "Unknown"

\* C11 (Spec): when the key of a track was resolved and then a tempo, energy
\* or brightness computation fails, the returned result still has the
\* resolved key and mode.
C11_AuxiliaryFeaturesNeverFail ==
    (pc = "return" /\ InTrace("features") /\ loc.analysis # << >>)
    => /\ ret[1].key = KEY_NAMES[loc.analysis[1].key_index]
       /\ ret[1].mode = loc.analysis[1].mode

\* every template has 12 values and the weights add up to 1.0
WellFormed(P) ==
    /\ \A n \in 1..Len(P) : DOMAIN P[n].major = PC /\ DOMAIN P[n].minor = PC
    /\ P[1].weight + P[2].weight + P[3].weight = 10

\* C12 (SpecEstimators): a program whose template set is malformed (a
\* template not of length 12, or weights not adding up to 1.0) fails before
\* it analyses a track: no track is handed to the estimators under such a
\* set, and none gets the "Unknown" sentinel because of it.
C12_ConfigurationFatal ==
    probe.op = "configured" => WellFormed(probe.config)

\* C13 (SpecEstimators): for a gain c > 0, the major and minor correlations
\* of c * v with every template are those of v, to the last digit of the
\* arithmetic, and the single pass gives c * y the tonic and mode it gives y.
C13_ScaleInvariance ==
    probe.op = "scaled"
    => /\ probe.scaled_key.key_idx = probe.key.key_idx
       /\ probe.scaled_key.mode = probe.key.mode
       /\ \A n \in 1..Len(profiles) : \A m \in Modes : \A k \in PC :
             LET a == probe.plain[n][m][k]
                 b == probe.scaled[n][m][k]
             IN  IF IsNaN(a) \/ IsNaN(b) THEN a = b
                 ELSE a - b \in -1..1

\* FrameC rolled to F, five times louder
C13_Witness ==
    /\ probe.op = "scaled"
    /\ probe.c = 5
    /\ probe.key = probe.scaled_key
    /\ probe.key.key_idx = 5
    /\ probe.key.mode = "major"
    /\ probe.plain[1]["major"][5] > 800
    /\ probe.scaled[1]["major"][5] > 800

\* C14 (SpecEstimators): the segments analysed are the consecutive pieces of
\* segment_duration * sr samples of the waveform, the trailing shorter piece
\* included, except a trailing piece shorter than 1 second.
C14_SegmentPartition ==
    probe.op = "segment_based_detection"
    => LET len == WLen(probe.y)
           segment_samples == segment_duration * sr
           count == (len + segment_samples - 1) \div segment_samples
           pieces == [k \in 1..count |->
                        [start |-> (k - 1) * segment_samples,
                         end |-> Min(k * segment_samples, len)]]
           Usable(r) == r.end - r.start >= sr
       IN  probe.segments = SelectSeq(pieces, Usable)

\* C15 (SpecEstimators): the confidence a usable segment puts into the vote
\* is winning / (winning + competing + 1e-8) of that segment's scores, with
\* no factor 0.8 however close the two scores are.
C15_NoSegmentPenalty ==
    probe.op = "segment_based_detection"
    => \A j \in 1..Len(probe.votes) :
          LET major_score == probe.scores[j]["major"][ArgMax(probe.scores[j]["major"])]
              minor_score == probe.scores[j]["minor"][ArgMax(probe.scores[j]["minor"])]
              winning == Max(major_score, minor_score)
              competing == Min(major_score, minor_score)
          IN  (Numeric(major_score) /\ Numeric(minor_score) /\ winning + competing > 0)
              => probe.votes[j].confidence = (winning * ConfScale) \div (winning + competing)

\* the confidence mass of the votes whose field has the value
RECURSIVE MassOf(_, _, _)
MassOf(votes, field, value) ==
    IF votes = << >> THEN 0
    ELSE (IF Head(votes)[field] = value THEN Head(votes).confidence ELSE 0)
         + MassOf(Tail(votes), field, value)

\* C16 (SpecEstimators): with one usable segment or more, and numeric
\* confidences, the final tonic is the first tonic of greatest mass in the
\* tally of the segments' confidences by winning tonic, the final mode is
\* major exactly when major's mass is strictly greater than minor's, and
\* the final confidence is the mean of the segments' confidences.
C16_VoteAggregation ==
    (/\ probe.op = "segment_based_detection"
     /\ probe.votes # << >>
     /\ \A j \in 1..Len(probe.votes) : Numeric(probe.votes[j].confidence))
    => LET votes == probe.votes
           tally == [k \in PC |-> MassOf(votes, "key_idx", k)]
           total == MassOf(votes, "mode", "major") + MassOf(votes, "mode", "minor")
       IN  /\ \A k \in PC : tally[k] <= tally[probe.out.key_idx]
           /\ \A k \in 0..(probe.out.key_idx - 1) : tally[k] < tally[probe.out.key_idx]
           /\ (probe.out.mode = "major")
                 <=> (MassOf(votes, "mode", "major") > MassOf(votes, "mode", "minor"))
           /\ probe.out.mode \in Modes
           /\ probe.out.confidence = total \div Len(votes)

\* two segments that vote for different tonics
C16_Witness ==
    /\ probe.op = "segment_based_detection"
    /\ Len(probe.votes) = 2
    /\ probe.votes[1].key_idx = 0
    /\ probe.votes[2].key_idx = 7
    /\ Numeric(probe.out.confidence)
    /\ 2 * probe.out.confidence
          \in {probe.votes[1].confidence + probe.votes[2].confidence,
               probe.votes[1].confidence + probe.votes[2].confidence - 1}
    /\ probe.out.key_idx \in {0, 7}

\* C17 (SpecEstimators): for numeric scores the key detect_key_enhanced
\* returns has the greatest of the 24 scores; with winning its score and
\* competing the best score of the other mode, its confidence is
\* winning / (winning + competing + 1e-8), times 0.8 exactly when
\* |winning - competing| < 0.05.
C17_SinglePassSelection ==
    (/\ probe.op = "detect_key_enhanced"
     /\ \A m \in Modes : \A k \in PC : Numeric(probe.scores[m][k]))
    => LET winning == probe.scores[probe.out.mode][probe.out.key_idx]
           other == IF probe.out.mode = "major" THEN "minor" ELSE "major"
           competing == probe.scores[other][ArgMax(probe.scores[other])]
           base == IF winning + competing > 0
                   THEN (winning * ConfScale) \div (winning + competing)
                   ELSE 0
       IN  /\ \A m \in Modes : \A k \in PC : probe.scores[m][k] <= winning
           /\ \A k \in PC : probe.scores[other][k] <= competing
           /\ winning + competing >= 0
           /\ probe.out.confidence =
                 IF winning - competing < NearTie THEN (base * 8) \div 10 ELSE base

\* a near tie between C major and A minor: the penalty is applied
C17_Witness ==
    /\ probe.op = "detect_key_enhanced"
    /\ probe.out.key_idx = 0
    /\ probe.out.mode = "major"
    /\ probe.scores["major"][0] - probe.scores["minor"][9] \in 1..(NearTie - 1)
    /\ probe.out.confidence < ConfScale \div 2

\* C18 (SpecEstimators): for numeric scores and a chosen key of score other
\* than 0, there are three alternatives, of three different keys other than
\* the chosen one, in non-increasing score order, no other key but the
\* chosen one scoring more than the third; each relative confidence is the
\* alternative's score / (the chosen key's score + 1e-8), to 3 decimals.
C18_AlternativeRanking ==
    (/\ probe.op = "KeyAnalysis"
     /\ \A m \in Modes : \A k \in PC : Numeric(probe.scores[m][k])
     /\ probe.scores[probe.final.mode][probe.final.key_index] # 0)
    => LET alts == probe.alternative_keys
           chosen == <<probe.final.key_index, probe.final.mode>>
           Keys == PC \X Modes
           score(c) == probe.scores[c[2]][c[1]]
           Labelled(j, c) == alts[j].scale = ScaleLabel(KEY_NAMES[c[1]], c[2])
           key == [j \in 1..3 |-> CHOOSE c \in Keys : Labelled(j, c)]
       IN  /\ Len(alts) = 3
           /\ \A j \in 1..3 : \E c \in Keys : Labelled(j, c)
           /\ \A j \in 1..3 : key[j] # chosen
           /\ Cardinality({key[j] : j \in 1..3}) = 3
           /\ score(key[1]) >= score(key[2])
           /\ score(key[2]) >= score(key[3])
           /\ \A c \in Keys \ ({chosen} \cup {key[j] : j \in 1..3}) : score(c) <= score(key[3])
           /\ \A j \in 1..3 : alts[j].conf = RoundDiv(score(key[j]) * 1000, score(chosen))

\* C major chosen for a waveform of C major chroma; its alternatives
C18_Witness ==
    /\ probe.op = "KeyAnalysis"
    /\ probe.final.key_index = 0
    /\ probe.final.mode = "major"
    /\ Len(probe.alternative_keys) = 3
    /\ probe.alternative_keys[1].scale = <<"E", "m">>
    /\ probe.alternative_keys[1].conf \in 1..999

\* C19 (SpecEstimators): when no segment is usable, segment_based_detection
\* returns (0, major, 0.0) and the consensus has the tonic and mode of the
\* single pass.
C19_ZeroSegmentFallback ==
    (probe.op = "KeyAnalysis" /\ probe.segments = << >>)
    => /\ probe.e2 = [key_idx |-> 0, mode |-> "major", confidence |-> 0]
       /\ probe.final.key_index = probe.e1.key_idx
       /\ probe.final.mode = probe.e1.mode

\* C20 (SpecResolver): the result's confidence is the consensus confidence
\* times 0.7 when energy < 0.01 and the consensus confidence itself when
\* energy >= 0.01, to 3 decimals; key, mode, relative key, scale label and
\* alternatives are those of the consensus whatever the energy.
C20_QuietSignalAdjustment ==
    probe.op = "BuildResults"
    => LET c == probe.final.confidence
           rel == relative_major_minor(probe.final.key_index, probe.final.mode)
       IN  /\ probe.out.confidence =
                 IF IsNaN(c) THEN NaN
                 ELSE IF probe.energy < 100 THEN Round3((c * 7) \div 10)
                 ELSE Round3(c)
           /\ probe.out.key = KEY_NAMES[probe.final.key_index]
           /\ probe.out.mode = probe.final.mode
           /\ probe.out.relative_scale = rel
           /\ probe.out.scale
                 = ScaleLabel(KEY_NAMES[probe.final.key_index], probe.final.mode)
                   \o <<"/", rel[1]>>
           /\ probe.out.alternative_keys = probe.alternative_keys

\* energy exactly 0.01: the confidence 0.6 is not reduced
C20_Witness ==
    /\ probe.op = "BuildResults"
    /\ probe.energy = 100
    /\ probe.final.confidence = 60000
    /\ probe.out.confidence = 600

\* C21 (SpecResolver): for numeric confidences c1 and c2 in [0, 1] the
\* consensus confidence is at least 0.9 * max(c1, c2) and at most
\* 1.1 * max(c1, c2), to the last digit of the arithmetic; it lies in
\* [0, 1.1]; and it is above 1.0 only when the two estimates agree and
\* neither confidence is more than 1.2 times the other.
C21_FinalConfidenceBounds ==
    (/\ probe.op = "Resolve"
     /\ Numeric(probe.e1.confidence)
     /\ Numeric(probe.e2.confidence)
     /\ probe.e1.confidence \in 0..ConfScale
     /\ probe.e2.confidence \in 0..ConfScale)
    => LET c1 == probe.e1.confidence
           c2 == probe.e2.confidence
           out == probe.out.confidence
           bonus == /\ probe.e1.key_idx = probe.e2.key_idx
                    /\ probe.e1.mode = probe.e2.mode
                    /\ 10 * c1 <= 12 * c2
                    /\ 10 * c2 <= 12 * c1
       IN  /\ Numeric(out)
           /\ 10 * out > 9 * Max(c1, c2) - 10
           /\ 10 * out <= 11 * Max(c1, c2)
           /\ out \in 0..((11 * ConfScale) \div 10)
           /\ out > ConfScale => bonus

\* both estimates are C major with confidence 1.0: the consensus has 1.1
C21_Witness ==
    /\ probe.op = "Resolve"
    /\ probe.e1 = [key_idx |-> 0, mode |-> "major", confidence |-> ConfScale]
    /\ probe.e2 = probe.e1
    /\ probe.out.confidence = (11 * ConfScale) \div 10

\* C24 (SpecResolver): the consensus tonic and mode are the tonic and mode
\* of estimate 1 or the tonic and mode of estimate 2, never the tonic of
\* one with the mode of the other; and the consensus confidence is the
\* adopted estimate's confidence, or 0.9 times it, or, when the two
\* estimates agree, possibly 1.1 times the mean of the two.
C24_ConsensusFromOneEstimate ==
    probe.op = "Resolve"
    => LET c1 == probe.e1.confidence
           c2 == probe.e2.confidence
           From(e) == probe.out.key_index = e.key_idx /\ probe.out.mode = e.mode
       IN  \/ From(probe.e1) /\ probe.out.confidence \in {c1, FScale(c1, 9, 10)}
           \/ From(probe.e2) /\ probe.out.confidence \in {c2, FScale(c2, 9, 10)}
           \/ /\ From(probe.e1)
              /\ From(probe.e2)
              /\ probe.out.confidence = FScale(FAdd(c1, c2), 11, 20)

\* C major 0.5 against G minor 0.59999: G minor is adopted with 0.9 * c2
C24_Witness ==
    /\ probe.op = "Resolve"
    /\ probe.e1 = [key_idx |-> 0, mode |-> "major", confidence |-> 50000]
    /\ probe.e2 = [key_idx |-> 7, mode |-> "minor", confidence |-> 59999]
    /\ probe.out = [key_index |-> 7, mode |-> "minor", confidence |-> 53999]

\* C22 (Spec): in a batch of N files with a callback, the calls made so far
\* are (0, N), (1, N), ... in this order; the call for a file is made when
\* detect_key_librosa has returned for that file; and when the table is
\* returned there have been exactly N calls.
C22_ProgressOrdering ==
    call.callback
    => /\ \A n \in 1..Len(progress) :
             /\ progress[n] = <<n - 1, Len(call.files)>>
             /\ \/ Len(results) >= n
                \/ i = n - 1 /\ pc = "return"
       /\ pc = "done" => Len(progress) = Len(call.files)

\* C28 (Spec): no cache entry is the failure sentinel, and a call for a
\* file that fails is never served from the cache; a call that got no
\* checksum is not served from the cache and no step of it changes the
\* cache; a batch with use_cache = False makes no cache read and no cache
\* write and leaves the cache as it was when the batch began.
C28_CacheConfinement ==
    /\ [](\A h \in Hashes : cache_dir[h] # << >> => cache_dir[h][1].key # "Unknown")
    /\ []((pc = "return" /\ (Fails(path) \/ loc.file_hash = None)) => InTrace("load"))
    /\ []((pc # "idle" /\ ~call.use_cache)
             => /\ cache_dir = cache0
                /\ ~InTrace("cache_read")
                /\ ~InTrace("cache_write"))
    /\ [][(pc # "idle" /\ (loc.file_hash = None \/ ~call.use_cache))
             => cache_dir' = cache_dir]_vars

\* the same failing file twice in a batch with caching on: the second call
\* runs the pipeline again and the cache has no entry for the file
C28_Witness ==
    /\ pc = "return"
    /\ call.use_cache
    /\ i = 1
    /\ call.files[1] = call.files[2]
    /\ Fails(path)
    /\ ret = <<Sentinel>>
    /\ InTrace("cache_read")
    /\ InTrace("load")
    /\ cache_dir[loc.file_hash] = << >>

\* C23 (SpecWindow): a waveform of at most 30 seconds is analysed whole; of
\* a longer one the analysed window starts at 10 s, ends no later than 10 s
\* before the end of the waveform, is at most 120 s long and is longer than
\* 10 s, so that the segment loop has one usable segment or more.
C23_AnalysisWindow ==
    probe.op = "Window"
    => LET len == WLen(probe.y)
           end == 10 * sr + WLen(probe.out)
       IN  /\ len <= 30 * sr => probe.out = probe.y
           /\ len > 30 * sr
                 => /\ probe.out = Slice(probe.y, 10 * sr, end)
                    /\ end <= len - 10 * sr
                    /\ WLen(probe.out) <= 120 * sr
                    /\ WLen(probe.out) > 10 * sr
                    /\ probe.segments # << >>

\* 200 seconds: the window is the 110 seconds from 10 s to 120 s, all of
\* the middle part, in 11 segments
C23_Witness ==
    /\ probe.op = "Window"
    /\ WLen(probe.y) = 200 * sr
    /\ probe.out = <<Run(110, 0, FrameC)>>
    /\ Len(probe.segments) = 11

\* C25 (SpecVoting): with one usable segment or more, the tonic and mode
\* segment_based_detection returns are the tonic and mode of one of the
\* segments.
C25_VotedPair ==
    (probe.op = "segment_based_detection" /\ probe.votes # << >>)
    => \E j \in 1..Len(probe.votes) :
          /\ probe.votes[j].key_idx = probe.out.key_idx
          /\ probe.votes[j].mode = probe.out.mode

\* C25 as amended (SpecVoting): with one usable segment or more and
\* confidences that are numbers above 0, the returned tonic is the tonic of
\* a segment and the returned mode is the mode of a segment, and with one
\* segment they are that segment's.
C25_VotedTonicAndMode ==
    (/\ probe.op = "segment_based_detection"
     /\ probe.votes # << >>
     /\ \A j \in 1..Len(probe.votes) :
           Numeric(probe.votes[j].confidence) /\ probe.votes[j].confidence > 0)
    => /\ \E j \in 1..Len(probe.votes) : probe.votes[j].key_idx = probe.out.key_idx
       /\ \E j \in 1..Len(probe.votes) : probe.votes[j].mode = probe.out.mode
       /\ Len(probe.votes) = 1
             => /\ probe.out.key_idx = probe.votes[1].key_idx
                /\ probe.out.mode = probe.votes[1].mode

\* three segments whose votes put the tonic of one with the mode of the
\* two others
C25_Witness ==
    /\ probe.op = "segment_based_detection"
    /\ Len(probe.votes) = 3
    /\ \A j \in 1..3 : Numeric(probe.votes[j].confidence) /\ probe.votes[j].confidence > 0
    /\ \E j \in 1..3 : probe.votes[j].key_idx = probe.out.key_idx
    /\ \A j \in 1..3 : probe.votes[j].key_idx = probe.out.key_idx
                          => probe.votes[j].mode # probe.out.mode

\* C26 (SpecEstimators): for a waveform longer than 1 second and not longer
\* than 10 seconds, the segment voting returns the estimate of the single
\* pass, and the consensus has the single pass's tonic and mode with 1.1
\* times its confidence.
C26_OneSegmentAgreement ==
    (/\ probe.op = "KeyAnalysis"
     /\ WLen(probe.y) > sr
     /\ WLen(probe.y) <= segment_duration * sr)
    => /\ probe.segments = <<[start |-> 0, end |-> WLen(probe.y)]>>
       /\ probe.e2 = probe.e1
       /\ probe.final.key_index = probe.e1.key_idx
       /\ probe.final.mode = probe.e1.mode
       /\ probe.final.confidence = FScale(probe.e1.confidence, 11, 10)

\* 5 seconds of G major chroma
C26_Witness ==
    /\ probe.op = "KeyAnalysis"
    /\ WLen(probe.y) = 5 * sr
    /\ probe.e1.key_idx = 7
    /\ probe.e1.mode = "major"
    /\ probe.e1.confidence > ConfScale \div 2
    /\ probe.e2 = probe.e1
    /\ probe.final.confidence > probe.e1.confidence

\* C27 (SpecEstimators): for numeric scores, the score arrays the
\* alternatives are ranked by give the single pass's estimate, whose key has
\* the greatest of the 24 scores; when the consensus key is the single
\* pass's key no alternative has a relative confidence above 1; and an
\* alternative has a relative confidence above 1 only when the consensus key
\* is the segment voting's and is not the single pass's.
C27_AlternativeScores ==
    (/\ probe.op = "KeyAnalysis"
     /\ \A m \in Modes : \A k \in PC : Numeric(probe.scores[m][k]))
    => LET alts == probe.alternative_keys
           FinalIs(e) == probe.final.key_index = e.key_idx /\ probe.final.mode = e.mode
       IN  /\ KeyFromScores(probe.scores) = probe.e1
           /\ \A m \in Modes : \A k \in PC :
                 probe.scores[m][k] <= probe.scores[probe.e1.mode][probe.e1.key_idx]
           /\ FinalIs(probe.e1) => \A j \in 1..Len(alts) : alts[j].conf <= 1000
           /\ (\E j \in 1..Len(alts) : alts[j].conf > 1000)
                 => FinalIs(probe.e2) /\ ~FinalIs(probe.e1)

\* 11 seconds of C major chroma and 10 of G major: the single pass says C
\* major, the consensus adopts the voting's G major, and the alternative
\* C major has the relative confidence 1.521
C27_Witness ==
    /\ probe.op = "KeyAnalysis"
    /\ probe.e1.key_idx = 0
    /\ probe.e1.mode = "major"
    /\ probe.e2.key_idx = 7
    /\ probe.e2.mode = "major"
    /\ probe.final.key_index = 7
    /\ probe.final.mode = "major"
    /\ probe.scores["major"][7] > 0
    /\ probe.alternative_keys[1].scale = <<"C">>
    /\ probe.alternative_keys[1].conf > 1000
    /\ probe.alternative_keys[3].conf < 1000

\* the tonic index of a key name
TonicOf(key) == CHOOSE k \in PC : KEY_NAMES[k] = key

\* C29 (SpecKeys): a row whose key is "Unknown" is in the transitions with
\* its neighbours like any other row; the distance between an Unknown row
\* and a row of tonic index t is min(t, 12 - t), and between two Unknown
\* rows it is 0.
C29_UnknownRowTransitions ==
    (probe.op = "calculate_key_transitions" /\ Len(probe.df.rows) >= 1)
    => LET r == probe.df.rows
           t == probe.out.returned[1].rows
       IN  /\ probe.out.raised = None
           /\ Len(t) = Len(r) - 1
           /\ \A j \in 1..(Len(r) - 1) :
                 LET a == r[j].key
                     b == r[j + 1].key
                 IN  /\ t[j].from = <<a, r[j].mode>>
                     /\ t[j].to = <<b, r[j + 1].mode>>
                     /\ (a = "Unknown" /\ b = "Unknown") => t[j].distance = 0
                     /\ (a = "Unknown" /\ IsKeyName(b))
                           => t[j].distance = Min(TonicOf(b), 12 - TonicOf(b))
                     /\ (IsKeyName(a) /\ b = "Unknown")
                           => t[j].distance = Min(TonicOf(a), 12 - TonicOf(a))

\* a failed track followed by A minor: distance min(9, 3)
C29_Witness ==
    /\ probe.op = "calculate_key_transitions"
    /\ Len(probe.df.rows) = 2
    /\ probe.df.rows[1] = [key |-> "Unknown", mode |-> "unknown"]
    /\ probe.df.rows[2] = [key |-> "A", mode |-> "minor"]
    /\ Len(probe.out.returned[1].rows) = 1
    /\ probe.out.returned[1].rows[1].from = <<"Unknown", "unknown">>
    /\ probe.out.returned[1].rows[1].distance = 3

\* C30 (SpecKeys): calculate_key_transitions leaves the table it is given
\* with the rows, the columns and the values it had before the call.
C30_InputUnchanged ==
    probe.op = "calculate_key_transitions" => probe.out.df = probe.df

=============================================================================
